---- MODULE Spec2Model ----
(***************************************************************************)
(* hecto: a terminal text editor.  Row (row.rs) is one line of text with a *)
(* cached display length, Document (document.rs) an ordered sequence of    *)
(* rows with load/save and the line edits, Editor (editor.rs) the cursor,  *)
(* the viewport offset, the prompts and the key dispatch loop.             *)
(*                                                                         *)
(* A Rust String is modelled as a sequence of characters; every character  *)
(* has its UTF-8 encoding, so byte indices (String::insert, String::remove,*)
(* str::split_at), character counts (chars()) and grapheme clusters        *)
(* (graphemes(true)) are three different measures, as in the program.      *)
(***************************************************************************)
EXTENDS Integers, Sequences, FiniteSets, TLC

(***************************************************************************)
(* Characters.                                                             *)
(***************************************************************************)
TAB == "\t"
SPACE == " "
CR == "\r"
LF == "\n"
\* U+00E9, a precomposed letter: one character, one grapheme, two bytes.
E_ACUTE == "U+00E9"
\* U+0301, a combining mark: extends the grapheme of the character before it.
COMBINING_ACUTE == "U+0301"

Chars == {"a", "b", SPACE, TAB, CR, LF, E_ACUTE, COMBINING_ACUTE}

\* The UTF-8 encoding of a character.
Utf8(c) ==
    CASE c = "a" -> <<97>>
      [] c = "b" -> <<98>>
      [] c = SPACE -> <<32>>
      [] c = TAB -> <<9>>
      [] c = CR -> <<13>>
      [] c = LF -> <<10>>
      [] c = E_ACUTE -> <<195, 169>>
      [] c = COMBINING_ACUTE -> <<204, 129>>

\* Grapheme_Cluster_Break classes of the characters (UAX #29).
Control == {TAB, CR, LF}
Extend == {COMBINING_ACUTE}

RECURSIVE Concat(_)
\* The concatenation of a sequence of sequences.
Concat(ss) == IF ss = <<>> THEN <<>> ELSE Head(ss) \o Concat(Tail(ss))

\* str::as_bytes: the UTF-8 bytes of a string.
as_bytes(s) == Concat([i \in 1..Len(s) |-> Utf8(s[i])])

\* str::len: the length of a string in bytes.
ByteLen(s) == Len(as_bytes(s))

\* The byte offset at which character k+1 starts (k characters come before).
ByteOffset(s, k) == ByteLen(SubSeq(s, 1, k))

\* str::is_char_boundary: byte index idx is the start of a character or the end.
is_char_boundary(s, idx) == \E k \in 0..Len(s) : ByteOffset(s, k) = idx

\* The number of characters before the character boundary idx.
CharsBefore(s, idx) == CHOOSE k \in 0..Len(s) : ByteOffset(s, k) = idx

\* A grapheme cluster starts at character i (GB1, GB4, GB5, GB9, GB999).
IsGraphemeStart(s, i) ==
    \/ i = 1
    \/ s[i] \notin Extend
    \/ s[i - 1] \in Control

\* graphemes(true).count()
GraphemeCount(s) == Cardinality({i \in 1..Len(s) : IsGraphemeStart(s, i)})

\* " ".repeat(n)
Spaces(n) == [i \in 1..n |-> SPACE]

\* Option<T>
None == [some |-> FALSE, v |-> <<>>]
Some(v) == [some |-> TRUE, v |-> v]

(***************************************************************************)
(* std::string::String.  A call that panics yields ok = FALSE.             *)
(***************************************************************************)
\* String::insert_str(idx, str): panics unless idx is a char boundary.
String_insert_str(s, idx, str) ==
    IF is_char_boundary(s, idx)
    THEN LET k == CharsBefore(s, idx)
         IN [ok |-> TRUE, string |-> SubSeq(s, 1, k) \o str \o SubSeq(s, k + 1, Len(s))]
    ELSE [ok |-> FALSE, string |-> s]

\* String::insert(idx, ch)
String_insert(s, idx, c) == String_insert_str(s, idx, <<c>>)

\* String::remove(idx): removes the character starting at byte idx; panics when
\* idx is not a char boundary or no character starts there (idx >= len).
String_remove(s, idx) ==
    IF is_char_boundary(s, idx) /\ idx < ByteLen(s)
    THEN LET k == CharsBefore(s, idx)
         IN [ok |-> TRUE, string |-> SubSeq(s, 1, k) \o SubSeq(s, k + 2, Len(s))]
    ELSE [ok |-> FALSE, string |-> s]

\* str::split_at(mid): panics unless mid is a char boundary.
str_split_at(s, mid) ==
    IF is_char_boundary(s, mid)
    THEN LET k == CharsBefore(s, mid)
         IN [ok |-> TRUE, left |-> SubSeq(s, 1, k), right |-> SubSeq(s, k + 1, Len(s))]
    ELSE [ok |-> FALSE, left |-> s, right |-> <<>>]

(***************************************************************************)
(* Row (row.rs).                                                           *)
(***************************************************************************)
TAB_WIDTH == 4

\* Row::char_count
Row_char_count(s, character) == Cardinality({i \in 1..Len(s) : s[i] = character})

\* Row::update_len, as the value it stores in len.
Row_update_len(s) == GraphemeCount(s) + Row_char_count(s, TAB) * (TAB_WIDTH - 1)

\* impl From<&str> for Row
Row_from(slice) == [string |-> slice, len |-> Row_update_len(slice)]

\* Row::default(): derived Default, an empty string and len 0.
Row_default == [string |-> <<>>, len |-> 0]

\* Row::contents
Row_contents(row) == row.string

\* Row::push as it would be if it stored a tab as the tab character.
Row_push_keeps_tab(row, c) ==
    [string |-> Append(row.string, c), len |-> Row_update_len(Append(row.string, c))]

\* Row::push
Row_push(row, c) ==
    LET string == IF c # TAB THEN Append(row.string, c)
                  ELSE row.string \o Spaces(TAB_WIDTH)
    IN [string |-> string, len |-> Row_update_len(string)]

RECURSIVE Row_push_str(_, _)
\* Row::push_str
Row_push_str(row, string) ==
    IF string = <<>> THEN [row EXCEPT !.len = Row_update_len(row.string)]
    ELSE Row_push_str(Row_push(row, Head(string)), Tail(string))

\* Row::insert: index is used as a byte index of the string.
Row_insert(row, index, c) ==
    LET r == IF c # TAB THEN String_insert(row.string, index, c)
             ELSE String_insert_str(row.string, index, Spaces(TAB_WIDTH))
    IN [ok |-> r.ok,
        row |-> IF r.ok THEN [string |-> r.string, len |-> Row_update_len(r.string)]
                ELSE row]

\* Row::delete as it would be without its call of update_len.
Row_delete_keeps_len(row, index) ==
    LET r == String_remove(row.string, index)
    IN [ok |-> r.ok,
        row |-> IF r.ok THEN [string |-> r.string, len |-> row.len] ELSE row]

\* Row::delete: index is used as a byte index of the string.
Row_delete(row, index) ==
    LET r == String_remove(row.string, index)
    IN [ok |-> r.ok,
        row |-> IF r.ok THEN [string |-> r.string, len |-> Row_update_len(r.string)]
                ELSE row]

\* Row::clear_mut
Row_clear_mut(row) == [string |-> <<>>, len |-> Row_update_len(<<>>)]

\* Row::as_bytes
Row_as_bytes(row) == as_bytes(row.string)

\* Row::len
Row_len(row) == row.len

\* Row::find: String::find gives the byte index of the first occurrence; the
\* result is the index of the grapheme that starts at that byte, if one does.
Row_find(row, query) ==
    LET s == row.string
        hits == {k \in 0..(Len(s) - Len(query)) : SubSeq(s, k + 1, k + Len(query)) = query}
    IN IF hits = {} THEN None
       ELSE LET k == CHOOSE h \in hits : \A g \in hits : h <= g
            IN IF k < Len(s) /\ IsGraphemeStart(s, k + 1)
               THEN Some(Cardinality({i \in 1..k : IsGraphemeStart(s, i)}))
               ELSE None

\* Position (editor.rs)
Position(x, y) == [x |-> x, y |-> y]

\* Position::default()
Position_default == Position(0, 0)

(***************************************************************************)
(* Document (document.rs).  The operations below take the rows and the     *)
(* Position `at` and give the new rows; ok = FALSE when the call panics.   *)
(***************************************************************************)
\* Document::len
Document_len(rs) == Len(rs)

\* Document::row(index).unwrap_or(&Row::default()) and
\* rows.get_mut(index).unwrap_or(empty_row_mut): the row, or an empty temporary.
Document_row_or_default(rs, index) ==
    IF index < Len(rs) THEN rs[index + 1] ELSE Row_default

\* Vec::remove(index), for index < len.
Vec_remove(rs, index) == SubSeq(rs, 1, index) \o SubSeq(rs, index + 2, Len(rs))

\* Vec::insert(index, element), for index <= len.
Vec_insert(rs, index, row) ==
    SubSeq(rs, 1, index) \o <<row>> \o SubSeq(rs, index + 1, Len(rs))

\* Document::insert
Document_insert(rs, at, c) ==
    IF at.y = Document_len(rs)
    THEN [ok |-> TRUE, rows |-> Append(rs, Row_push(Row_default, c))]
    ELSE IF at.y > Len(rs)
    THEN [ok |-> FALSE, rows |-> rs]             \* get_mut(at.y).unwrap() on None
    ELSE LET row == rs[at.y + 1]
         IN IF at.x = Row_len(row)
            THEN [ok |-> TRUE, rows |-> [rs EXCEPT ![at.y + 1] = Row_push(row, c)]]
            ELSE LET r == Row_insert(row, at.x, c)
                 IN [ok |-> r.ok,
                     rows |-> IF r.ok THEN [rs EXCEPT ![at.y + 1] = r.row] ELSE rs]

\* Document::del_char_backward
Document_del_char_backward(rs, at) ==
    IF at.x # 0
    THEN LET r == Row_delete(Document_row_or_default(rs, at.y), at.x - 1)
         IN [ok |-> r.ok,
             rows |-> IF r.ok /\ at.y < Len(rs) THEN [rs EXCEPT ![at.y + 1] = r.row]
                      ELSE rs]
    ELSE IF at.y > 0
    THEN LET curr_row_contents == Row_contents(Document_row_or_default(rs, at.y))
             joined == IF at.y - 1 < Len(rs)
                       THEN [rs EXCEPT ![at.y] = Row_push_str(rs[at.y], curr_row_contents)]
                       ELSE rs
         IN [ok |-> TRUE,
             rows |-> IF at.y < Len(joined) THEN Vec_remove(joined, at.y) ELSE joined]
    ELSE [ok |-> TRUE, rows |-> rs]

\* Document::del_char_forward
Document_del_char_forward(rs, at) ==
    LET row == Document_row_or_default(rs, at.y)
    IN IF at.x # Row_len(row)
       THEN LET r == Row_delete(row, at.x)
            IN [ok |-> r.ok,
                rows |-> IF r.ok /\ at.y < Len(rs) THEN [rs EXCEPT ![at.y + 1] = r.row]
                         ELSE rs]
       ELSE IF at.y < Document_len(rs)
       THEN LET next_row_contents == Row_contents(Document_row_or_default(rs, at.y + 1))
                joined == [rs EXCEPT ![at.y + 1] = Row_push_str(rs[at.y + 1], next_row_contents)]
            IN [ok |-> TRUE,
                rows |-> IF at.y + 1 < Len(joined) THEN Vec_remove(joined, at.y + 1)
                         ELSE joined]
       ELSE [ok |-> TRUE, rows |-> rs]

\* Document::insert_newline
Document_insert_newline(rs, at) ==
    IF at.y >= Document_len(rs)
    THEN [ok |-> TRUE, rows |-> rs \o <<Row_default, Row_default>>]
    ELSE IF at.x = Row_len(Document_row_or_default(rs, at.y))
    THEN [ok |-> TRUE, rows |-> Vec_insert(rs, at.y + 1, Row_default)]
    ELSE LET curr_row_contents == Row_contents(rs[at.y + 1])
             split_content == str_split_at(curr_row_contents, at.x)
             new_row == Row_push_str(Row_default, split_content.right)
             curr_row == Row_push_str(Row_clear_mut(rs[at.y + 1]), split_content.left)
         IN [ok |-> split_content.ok,
             rows |-> IF split_content.ok
                      THEN Vec_insert([rs EXCEPT ![at.y + 1] = curr_row], at.y + 1, new_row)
                      ELSE rs]

\* Document::find: the match of the first row that has one.
Document_find(rs, query) ==
    LET ys == {y \in 0..(Len(rs) - 1) : Row_find(rs[y + 1], query).some}
    IN IF ys = {} THEN None
       ELSE LET y == CHOOSE h \in ys : \A g \in ys : h <= g
            IN Some(Position(Row_find(rs[y + 1], query).v, y))

(***************************************************************************)
(* Files.  A file is its sequence of bytes; Document::save writes the      *)
(* UTF-8 bytes of every row followed by one line feed, Document::open      *)
(* decodes the bytes (fs::read_to_string) and splits them with lines().    *)
(***************************************************************************)
RECURSIVE from_utf8(_)
\* String::from_utf8, for the characters of Chars: ok = FALSE on invalid UTF-8.
from_utf8(bytes) ==
    IF bytes = <<>> THEN [ok |-> TRUE, string |-> <<>>]
    ELSE LET one == {c \in Chars : Utf8(c) = <<bytes[1]>>}
             two == IF Len(bytes) >= 2
                    THEN {c \in Chars : Utf8(c) = <<bytes[1], bytes[2]>>}
                    ELSE {}
         IN IF one # {}
            THEN LET rest == from_utf8(Tail(bytes))
                 IN [ok |-> rest.ok, string |-> <<CHOOSE c \in one : TRUE>> \o rest.string]
            ELSE IF two # {}
            THEN LET rest == from_utf8(Tail(Tail(bytes)))
                 IN [ok |-> rest.ok, string |-> <<CHOOSE c \in two : TRUE>> \o rest.string]
            ELSE [ok |-> FALSE, string |-> <<>>]

\* The index of the first line feed of s, or 0.
FirstLF(s) ==
    IF \E i \in 1..Len(s) : s[i] = LF
    THEN CHOOSE i \in 1..Len(s) : s[i] = LF /\ \A j \in 1..(i - 1) : s[j] # LF
    ELSE 0

RECURSIVE lines(_)
\* str::lines: split at line feeds; a line that ended with a line feed loses one
\* carriage return before it; a last line without a line feed is kept as it is.
lines(s) ==
    IF s = <<>> THEN <<>>
    ELSE LET i == FirstLF(s)
         IN IF i = 0 THEN <<s>>
            ELSE LET line == SubSeq(s, 1, i - 1)
                     stripped == IF line # <<>> /\ line[Len(line)] = CR
                                 THEN SubSeq(line, 1, Len(line) - 1)
                                 ELSE line
                 IN <<stripped>> \o lines(SubSeq(s, i + 1, Len(s)))

NoFile == [exists |-> FALSE, bytes |-> <<>>]

\* Document::open: the rows of the file, or an error.
Document_open(file) ==
    LET contents == from_utf8(file.bytes)
        ls == lines(contents.string)
    IN IF file.exists /\ contents.ok
       THEN [ok |-> TRUE, rows |-> [i \in 1..Len(ls) |-> Row_from(ls[i])], dirty |-> FALSE]
       ELSE [ok |-> FALSE, rows |-> <<>>, dirty |-> FALSE]

\* The write_all calls as they would be if the line feeds were left out.
SaveWrites_without_line_feed(rs) ==
    [k \in 1..(2 * Len(rs)) |->
        IF k % 2 = 1 THEN Row_as_bytes(rs[(k + 1) \div 2]) ELSE <<>>]

\* The write_all calls of Document::save, in order: a row, a line feed, a row, ...
SaveWrites(rs) ==
    [k \in 1..(2 * Len(rs)) |->
        IF k % 2 = 1 THEN Row_as_bytes(rs[(k + 1) \div 2]) ELSE Utf8(LF)]

\* Outcomes of the file system for one Document::save.
SaveOutcomes(rs) ==
    {[kind |-> "ok", failing |-> 0], [kind |-> "create_err", failing |-> 0]}
    \cup {[kind |-> "write_err", failing |-> k] : k \in 1..(2 * Len(rs))}

\* Document::save as it would be if it cleared the dirty flag before writing.
Document_save_clears_dirty_first(rs, name, dirty_before, file, outcome) ==
    IF ~name.some
    THEN [ok |-> TRUE, dirty |-> FALSE, file |-> file]
    ELSE IF outcome.kind = "create_err"
    THEN [ok |-> FALSE, dirty |-> FALSE, file |-> file]
    ELSE IF outcome.kind = "write_err"
    THEN [ok |-> FALSE, dirty |-> FALSE,
          file |-> [exists |-> TRUE,
                    bytes |-> Concat(SubSeq(SaveWrites(rs), 1, outcome.failing - 1))]]
    ELSE [ok |-> TRUE, dirty |-> FALSE,
          file |-> [exists |-> TRUE, bytes |-> Concat(SaveWrites(rs))]]

\* Document::save: the result, the dirty flag and the file afterwards.  With no
\* filename nothing is written.  fs::File::create truncates the file; the
\* write_all calls before the failing one have written their bytes.
Document_save(rs, name, dirty_before, file, outcome) ==
    IF ~name.some
    THEN [ok |-> TRUE, dirty |-> FALSE, file |-> file]
    ELSE IF outcome.kind = "create_err"
    THEN [ok |-> FALSE, dirty |-> dirty_before, file |-> file]
    ELSE IF outcome.kind = "write_err"
    THEN [ok |-> FALSE, dirty |-> dirty_before,
          file |-> [exists |-> TRUE,
                    bytes |-> Concat(SubSeq(SaveWrites(rs), 1, outcome.failing - 1))]]
    ELSE [ok |-> TRUE, dirty |-> FALSE,
          file |-> [exists |-> TRUE, bytes |-> Concat(SaveWrites(rs))]]

(***************************************************************************)
(* Editor (editor.rs): cursor arithmetic.                                  *)
(***************************************************************************)
\* usize::saturating_sub
saturating_sub(a, b) == IF a > b THEN a - b ELSE 0

\* Editor::scroll as it would be if it put the cursor's line at the top of the
\* window when the cursor is below it.
scroll_cursor_to_top(cursor, off, sz) ==
    LET width == sz.width
        height == saturating_sub(sz.height, 2)
        oy == IF cursor.y < off.y THEN cursor.y
              ELSE IF cursor.y >= off.y + height
              THEN cursor.y
              ELSE off.y
        ox == IF cursor.x < off.x THEN cursor.x
              ELSE IF cursor.x >= off.x + width
              THEN saturating_sub(cursor.x, width) + 1
              ELSE off.x
    IN Position(ox, oy)

\* Editor::scroll: the new offset.
scroll(cursor, off, sz) ==
    LET width == sz.width
        height == saturating_sub(sz.height, 2)
        oy == IF cursor.y < off.y THEN cursor.y
              ELSE IF cursor.y >= off.y + height
              THEN saturating_sub(cursor.y, height) + 1
              ELSE off.y
        ox == IF cursor.x < off.x THEN cursor.x
              ELSE IF cursor.x >= off.x + width
              THEN saturating_sub(cursor.x, width) + 1
              ELSE off.x
    IN Position(ox, oy)

MoveKeys == {"Left", "Right", "Up", "Down", "Ctrl_e", "Ctrl_a", "Home", "End",
             "PageUp", "PageDown"}

\* Editor::move_cursor: the new cursor position.  Ctrl-b, Ctrl-f, Ctrl-p and
\* Ctrl-n share the arms of Left, Right, Up and Down.
move_cursor(key, cursor, rs, sz) ==
    LET x == cursor.x
        y == cursor.y
        width == Row_len(Document_row_or_default(rs, y))
        height == saturating_sub(Document_len(rs), 1)
    IN CASE key = "Left" ->
              IF x > 0 THEN Position(x - 1, y)
              ELSE IF y > 0
              THEN Position(Row_len(Document_row_or_default(rs, y - 1)), y - 1)
              ELSE Position(x, y)
         [] key = "Right" ->
              IF x < width THEN Position(x + 1, y)
              ELSE IF y < height THEN Position(0, y + 1)
              ELSE Position(x, y)
         [] key = "Up" ->
              LET ny == IF y > 0 THEN saturating_sub(y, 1) ELSE y
                  nwidth == Row_len(Document_row_or_default(rs, ny))
              IN Position(IF x > nwidth THEN nwidth ELSE x, ny)
         [] key = "Down" ->
              LET ny == IF y < height + 1 THEN y + 1 ELSE y
                  nwidth == Row_len(Document_row_or_default(rs, ny))
              IN Position(IF x > nwidth THEN nwidth ELSE x, ny)
         [] key = "Ctrl_e" -> Position(width, y)
         [] key = "Ctrl_a" -> Position(0, y)
         [] key = "Home" -> Position(Row_len(Document_row_or_default(rs, 0)), 0)
         [] key = "End" -> Position(0, height + 1)
         [] key = "PageUp" -> Position(x, saturating_sub(y + 3, sz.height))
         [] key = "PageDown" ->
              IF saturating_sub(y + sz.height, 3) < Document_len(rs)
              THEN Position(x, saturating_sub(y + sz.height, 3))
              ELSE Position(x, Document_len(rs))

\* Editor::insert_char: the cursor after the document has been changed.
insert_char_cursor(cursor, c) ==
    IF c = TAB THEN Position(cursor.x + TAB_WIDTH, cursor.y)
    ELSE IF c = LF THEN Position(0, cursor.y + 1)
    ELSE Position(cursor.x + 1, cursor.y)

\* Editor::del_char_backward: the cursor after the document has been changed;
\* prev_line_len was read before the change.
del_char_backward_cursor(cursor, prev_line_len) ==
    IF cursor.x # 0 THEN Position(cursor.x - 1, cursor.y)
    ELSE IF cursor.y > 0 THEN Position(prev_line_len, cursor.y - 1)
    ELSE cursor

(***************************************************************************)
(* State.                                                                  *)
(***************************************************************************)
VARIABLES
    rows,                  \* Document.rows
    filename,              \* Document.filename
    doc_dirty,             \* Document.dirty
    should_quit,           \* Editor.should_quit
    cursor_position,       \* Editor.cursor_position
    offset,                \* Editor.offset
    dirty,                 \* Editor.dirty
    size,                  \* Editor.terminal.size
    mode,                  \* where the session is: the key loop, a prompt, ended
    prompt,                \* the prompt text of the prompt_string being read
    ret,                   \* prompt_string's buffer
    prev_cursor_position,  \* the cursor a prompt saved on entry
    disk,                  \* the file at the document's path
    call,                  \* history: the last operation, its arguments, the rows before it
    saved_rows,            \* history: the rows at the last successful save or load
    steps                  \* history: the number of keys read (operations called) so far

vars == <<rows, filename, doc_dirty, should_quit, cursor_position, offset, dirty,
          size, mode, prompt, ret, prev_cursor_position, disk, call, saved_rows, steps>>

doc_vars == <<rows, filename, doc_dirty>>
prompt_vars == <<prompt, ret, prev_cursor_position>>

\* Bounds of the model: the keys read in one session, and the Document
\* operations called in one run of the Document interface.
MaxKeys == 3
MaxOps == 2

\* One more key is read.
ReadKey == steps < MaxKeys /\ steps' = steps + 1

\* One more operation of Document is called.
CallDocument == steps < MaxOps /\ steps' = steps + 1

\* The prompt texts of editor.rs, with their lengths in bytes.
NO_PROMPT == [text |-> "", len |-> 0]
QUIT_PROMPT == [text |-> "Unsaved changes remaining. Really Quit?", len |-> 39]
Y_OR_N == [text |-> " y or n: ", len |-> 9]
SAVE_AS == [text |-> "Save as: ", len |-> 9]
SEARCH == [text |-> "Search: ", len |-> 8]

\* The name given on the command line.
FILE_ARG == <<"a">>

File(s) == [exists |-> TRUE, bytes |-> as_bytes(s)]

\* Files the session may be started on.
Files ==
    { NoFile,
      File(<<>>),
      File(<<"a", "b", LF>>),
      File(<<"a", TAB, "b", LF>>),
      File(<<E_ACUTE, "a", "b", LF>>),
      File(<<"a", COMBINING_ACUTE, LF, "b", LF>>),
      File(<<"a", CR, CR, LF>>),
      File(<<"a", CR, LF, "b">>),
      [exists |-> TRUE, bytes |-> <<97, 195>>] }

\* Terminal sizes the session may be started in.
Sizes == {[width |-> 2, height |-> 2], [width |-> 3, height |-> 4]}

NoCall == [op |-> "none", at |-> Position_default, c |-> "", before |-> <<>>, ok |-> TRUE]

Call(op, at, c, before, ok) ==
    [op |-> op, at |-> at, c |-> c, before |-> before, ok |-> ok]

\* Editor::default: the document is empty and unnamed without an argument or
\* when the file cannot be opened, else the file's rows.
InitWith(with_arg, file, sz) ==
    LET doc == Document_open(file)
        opened == with_arg /\ doc.ok
    IN /\ rows = (IF opened THEN doc.rows ELSE <<>>)
       /\ filename = (IF opened THEN Some(FILE_ARG) ELSE None)
       /\ doc_dirty = FALSE
       /\ should_quit = FALSE
       /\ cursor_position = Position_default
       /\ offset = Position_default
       /\ dirty = FALSE
       /\ size = sz
       /\ mode = "Running"
       /\ prompt = NO_PROMPT
       /\ ret = <<>>
       /\ prev_cursor_position = Position_default
       /\ disk = (IF with_arg THEN file ELSE NoFile)
       /\ call = NoCall
       /\ saved_rows = (IF opened THEN doc.rows ELSE <<>>)
       /\ steps = 0

Init == \E with_arg \in BOOLEAN, file \in Files, sz \in Sizes :
            /\ (~with_arg => file = NoFile)
            /\ InitWith(with_arg, file, sz)

(***************************************************************************)
(* Editor (editor.rs): the key loop.  One action is one key read by        *)
(* Terminal::read_key together with everything run() does until the next   *)
(* read: the dispatch of process_keypress, its trailing scroll() and       *)
(* refresh_screen.  A panic ends the session in mode "Panicked".           *)
(***************************************************************************)
\* Characters Key::Char can carry here; LF is the Enter key.
TypedChars == {"a", TAB, E_ACUTE, LF}

\* The cursor a prompt shows: on the last terminal line, after the prompt text.
PromptCursor(len) == Position(len, saturating_sub(size.height, 1))

\* Key::Char(c) => self.insert_char(c)
KeyChar(c) ==
    /\ mode = "Running"
    /\ ReadKey
    /\ LET r == IF c # LF THEN Document_insert(rows, cursor_position, c)
                ELSE Document_insert_newline(rows, cursor_position)
           cur == insert_char_cursor(cursor_position, c)
       IN /\ call' = Call(IF c # LF THEN "insert" ELSE "insert_newline",
                          cursor_position, c, rows, r.ok)
          /\ dirty' = TRUE
          /\ IF r.ok
             THEN /\ rows' = r.rows
                  /\ doc_dirty' = TRUE
                  /\ cursor_position' = cur
                  /\ offset' = scroll(cur, offset, size)
                  /\ mode' = "Running"
             ELSE /\ mode' = "Panicked"
                  /\ UNCHANGED <<rows, doc_dirty, cursor_position, offset>>
    /\ UNCHANGED <<filename, should_quit, size, prompt_vars, disk, saved_rows>>

\* Key::Backspace => self.del_char_backward()
KeyBackspace ==
    /\ mode = "Running"
    /\ ReadKey
    /\ LET prev_line_len ==
               Row_len(Document_row_or_default(rows, saturating_sub(cursor_position.y, 1)))
           r == Document_del_char_backward(rows, cursor_position)
           cur == del_char_backward_cursor(cursor_position, prev_line_len)
       IN /\ call' = Call("del_char_backward", cursor_position, "", rows, r.ok)
          /\ dirty' = TRUE
          /\ IF r.ok
             THEN /\ rows' = r.rows
                  /\ doc_dirty' = TRUE
                  /\ cursor_position' = cur
                  /\ offset' = scroll(cur, offset, size)
                  /\ mode' = "Running"
             ELSE /\ mode' = "Panicked"
                  /\ UNCHANGED <<rows, doc_dirty, cursor_position, offset>>
    /\ UNCHANGED <<filename, should_quit, size, prompt_vars, disk, saved_rows>>

\* Key::Delete as it would be handled if Editor::del_char_forward did not set
\* Editor.dirty.
KeyDelete_without_dirty ==
    /\ mode = "Running"
    /\ ReadKey
    /\ LET r == Document_del_char_forward(rows, cursor_position)
       IN /\ call' = Call("del_char_forward", cursor_position, "", rows, r.ok)
          /\ IF r.ok
             THEN /\ rows' = r.rows
                  /\ doc_dirty' = TRUE
                  /\ offset' = scroll(cursor_position, offset, size)
                  /\ mode' = "Running"
             ELSE /\ mode' = "Panicked"
                  /\ UNCHANGED <<rows, doc_dirty, offset>>
    /\ UNCHANGED <<filename, should_quit, cursor_position, dirty, size, prompt_vars, disk,
                   saved_rows>>

\* Key::Delete => self.del_char_forward()
KeyDelete ==
    /\ mode = "Running"
    /\ ReadKey
    /\ LET r == Document_del_char_forward(rows, cursor_position)
       IN /\ call' = Call("del_char_forward", cursor_position, "", rows, r.ok)
          /\ dirty' = TRUE
          /\ IF r.ok
             THEN /\ rows' = r.rows
                  /\ doc_dirty' = TRUE
                  /\ offset' = scroll(cursor_position, offset, size)
                  /\ mode' = "Running"
             ELSE /\ mode' = "Panicked"
                  /\ UNCHANGED <<rows, doc_dirty, offset>>
    /\ UNCHANGED <<filename, should_quit, cursor_position, size, prompt_vars, disk,
                   saved_rows>>

\* A move key as it would be handled if process_keypress did not end with
\* scroll().
KeyMove_without_scroll(key) ==
    /\ mode = "Running"
    /\ ReadKey
    /\ cursor_position' = move_cursor(key, cursor_position, rows, size)
    /\ call' = Call(key, cursor_position, "", rows, TRUE)
    /\ UNCHANGED <<doc_vars, should_quit, offset, dirty, size, mode, prompt_vars, disk,
                   saved_rows>>

\* Left, Right, Up, Down, Ctrl-e, Ctrl-a, Home, End, PageUp, PageDown
\* => self.move_cursor(key_pressed)
KeyMove(key) ==
    /\ mode = "Running"
    /\ ReadKey
    /\ LET cur == move_cursor(key, cursor_position, rows, size)
       IN /\ cursor_position' = cur
          /\ offset' = scroll(cur, offset, size)
    /\ call' = Call(key, cursor_position, "", rows, TRUE)
    /\ UNCHANGED <<doc_vars, should_quit, dirty, size, mode, prompt_vars, disk, saved_rows>>

\* Any other key (_ => ()): only the trailing scroll() runs.
KeyOther ==
    /\ mode = "Running"
    /\ ReadKey
    /\ offset' = scroll(cursor_position, offset, size)
    /\ call' = Call("other", cursor_position, "", rows, TRUE)
    /\ UNCHANGED <<doc_vars, should_quit, cursor_position, dirty, size, mode, prompt_vars,
                   disk, saved_rows>>

\* Key::Ctrl('q') => self.should_quit = true, then refresh_screen: with
\* Editor.dirty set it enters prompt_bool, else the loop breaks.
KeyCtrlQ ==
    /\ mode = "Running"
    /\ ReadKey
    /\ should_quit' = TRUE
    /\ offset' = scroll(cursor_position, offset, size)
    /\ call' = Call("quit", cursor_position, "", rows, TRUE)
    /\ IF dirty
       THEN /\ mode' = "prompt_bool"
            /\ prev_cursor_position' = cursor_position
            /\ cursor_position' = PromptCursor(QUIT_PROMPT.len + Y_OR_N.len)
       ELSE /\ mode' = "Terminated"
            /\ UNCHANGED <<cursor_position, prev_cursor_position>>
    /\ UNCHANGED <<doc_vars, dirty, size, prompt, ret, disk, saved_rows>>

\* Editor::prompt_bool on 'y': returns true; refresh_screen says goodbye and
\* run() breaks out of the loop.
PromptBoolYes ==
    /\ mode = "prompt_bool"
    /\ ReadKey
    /\ cursor_position' = prev_cursor_position
    /\ mode' = "Terminated"
    /\ call' = [call EXCEPT !.op = "quit_yes"]
    /\ UNCHANGED <<doc_vars, should_quit, offset, dirty, size, prompt_vars, disk, saved_rows>>

\* prompt_bool on 'n' as it would be if the saved cursor were not put back.
PromptBoolNo_keeps_prompt_cursor ==
    /\ mode = "prompt_bool"
    /\ ReadKey
    /\ should_quit' = FALSE
    /\ mode' = "Running"
    /\ call' = [call EXCEPT !.op = "quit_no"]
    /\ UNCHANGED <<doc_vars, cursor_position, offset, dirty, size, prompt_vars, disk,
                   saved_rows>>

\* Editor::prompt_bool on 'n', Esc or Ctrl-g: returns false; refresh_screen
\* clears should_quit.
PromptBoolNo ==
    /\ mode = "prompt_bool"
    /\ ReadKey
    /\ cursor_position' = prev_cursor_position
    /\ should_quit' = FALSE
    /\ mode' = "Running"
    /\ call' = [call EXCEPT !.op = "quit_no"]
    /\ UNCHANGED <<doc_vars, offset, dirty, size, prompt_vars, disk, saved_rows>>

\* Editor::prompt_bool on any other key: the loop goes round.
PromptBoolOther ==
    /\ mode = "prompt_bool"
    /\ ReadKey
    /\ cursor_position' = PromptCursor(QUIT_PROMPT.len + Y_OR_N.len)
    /\ call' = [call EXCEPT !.op = "quit_other"]
    /\ UNCHANGED <<doc_vars, should_quit, offset, dirty, size, mode, prompt_vars, disk,
                   saved_rows>>

\* Ctrl-w as it would be if Editor::save cleared Editor.dirty whatever
\* Document::save returned.
KeySaveNamed_drops_result(outcome) ==
    /\ mode = "Running"
    /\ ReadKey
    /\ filename.some
    /\ LET r == Document_save(rows, filename, doc_dirty, disk, outcome)
       IN /\ doc_dirty' = r.dirty
          /\ dirty' = FALSE
          /\ disk' = r.file
          /\ saved_rows' = (IF r.ok THEN rows ELSE saved_rows)
          /\ call' = Call("save", cursor_position, outcome.kind, rows, r.ok)
    /\ offset' = scroll(cursor_position, offset, size)
    /\ UNCHANGED <<rows, filename, should_quit, cursor_position, size, mode, prompt_vars>>

\* Key::Ctrl('w') => self.save() on a named document: Document::save, and on
\* success Editor.dirty is cleared; an error is printed and dropped.
KeySaveNamed(outcome) ==
    /\ mode = "Running"
    /\ ReadKey
    /\ filename.some
    /\ LET r == Document_save(rows, filename, doc_dirty, disk, outcome)
       IN /\ doc_dirty' = r.dirty
          /\ dirty' = (IF r.ok THEN FALSE ELSE dirty)
          /\ disk' = r.file
          /\ saved_rows' = (IF r.ok THEN rows ELSE saved_rows)
          /\ call' = Call("save", cursor_position, outcome.kind, rows, r.ok)
    /\ offset' = scroll(cursor_position, offset, size)
    /\ UNCHANGED <<rows, filename, should_quit, cursor_position, size, mode, prompt_vars>>

\* Editor::prompt_string on entry: the buffer is empty, the cursor is saved and
\* moved after the prompt text.  The history keeps the offset of this moment
\* too.
EnterPromptString(p, tag) ==
    /\ mode' = "prompt_string"
    /\ prompt' = p
    /\ ret' = <<>>
    /\ prev_cursor_position' = cursor_position
    /\ cursor_position' = PromptCursor(p.len)
    /\ call' = [op |-> tag, at |-> cursor_position, c |-> "", before |-> rows,
                ok |-> TRUE, offset |-> offset]
    /\ UNCHANGED <<doc_vars, should_quit, offset, dirty, size, disk, saved_rows>>

\* Key::Ctrl('w') => self.save() on an unnamed document: prompt_string("Save as: ").
KeySaveUnnamed ==
    /\ mode = "Running"
    /\ ReadKey
    /\ ~filename.some
    /\ EnterPromptString(SAVE_AS, "save_as_prompt")

\* Key::Ctrl('s') => self.find(): prompt_string("Search: ").
KeyCtrlS ==
    /\ mode = "Running"
    /\ ReadKey
    /\ EnterPromptString(SEARCH, "search_prompt")

\* The callback prompt_string runs after a key that does not end the prompt:
\* nothing for "Save as: "; for "Search: " the cursor jumps to the first match
\* of the buffer and the view scrolls to it.
PromptCallback(cur, off, buffer) ==
    LET found == Document_find(rows, buffer)
    IN IF prompt = SEARCH /\ found.some
       THEN [cursor |-> found.v, offset |-> scroll(found.v, off, size)]
       ELSE [cursor |-> cur, offset |-> off]

\* prompt_string on Key::Char(c), c not '\n'
PromptStringChar(c) ==
    /\ mode = "prompt_string"
    /\ ReadKey
    /\ ret' = Append(ret, c)
    /\ LET after == PromptCallback(Position(cursor_position.x + 1, cursor_position.y),
                                   offset, Append(ret, c))
       IN cursor_position' = after.cursor /\ offset' = after.offset
    /\ call' = [call EXCEPT !.op = "prompt_char", !.c = c]
    /\ UNCHANGED <<doc_vars, should_quit, dirty, size, mode, prompt, prev_cursor_position,
                   disk, saved_rows>>

\* prompt_string on Key::Backspace as it would be if the cursor moved back but
\* the buffer kept its last character.
PromptStringBackspace_keeps_char ==
    /\ mode = "prompt_string"
    /\ ReadKey
    /\ LET popped == ret # <<>>
           cur == IF popped
                  THEN Position(saturating_sub(cursor_position.x, 1), cursor_position.y)
                  ELSE cursor_position
           after == PromptCallback(cur, offset, ret)
       IN /\ ret' = ret
          /\ cursor_position' = after.cursor
          /\ offset' = after.offset
    /\ call' = [call EXCEPT !.op = "prompt_backspace"]
    /\ UNCHANGED <<doc_vars, should_quit, dirty, size, mode, prompt, prev_cursor_position,
                   disk, saved_rows>>

\* prompt_string on Key::Backspace
PromptStringBackspace ==
    /\ mode = "prompt_string"
    /\ ReadKey
    /\ LET popped == ret # <<>>
           buffer == IF popped THEN SubSeq(ret, 1, Len(ret) - 1) ELSE ret
           cur == IF popped
                  THEN Position(saturating_sub(cursor_position.x, 1), cursor_position.y)
                  ELSE cursor_position
           after == PromptCallback(cur, offset, buffer)
       IN /\ ret' = buffer
          /\ cursor_position' = after.cursor
          /\ offset' = after.offset
    /\ call' = [call EXCEPT !.op = "prompt_backspace"]
    /\ UNCHANGED <<doc_vars, should_quit, dirty, size, mode, prompt, prev_cursor_position,
                   disk, saved_rows>>

\* prompt_string on any other key (_ => ()): only the callback runs.
PromptStringOther ==
    /\ mode = "prompt_string"
    /\ ReadKey
    /\ LET after == PromptCallback(cursor_position, offset, ret)
       IN cursor_position' = after.cursor /\ offset' = after.offset
    /\ call' = [call EXCEPT !.op = "prompt_other"]
    /\ UNCHANGED <<doc_vars, should_quit, dirty, size, mode, prompt_vars, disk, saved_rows>>

\* prompt_string returns None: on Esc or Ctrl-g (enter = FALSE), or on Enter with
\* an empty buffer.  The cursor is restored.  Editor::save then reports the
\* abort; Editor::find sets the cursor to initial_position and scrolls.
\* process_keypress ends with scroll().
PromptStringNone(enter) ==
    /\ mode = "prompt_string"
    /\ ReadKey
    /\ enter => ret = <<>>
    /\ ret' = <<>>
    /\ cursor_position' = prev_cursor_position
    /\ offset' = IF prompt = SEARCH
                 THEN scroll(prev_cursor_position,
                             scroll(prev_cursor_position, offset, size), size)
                 ELSE scroll(prev_cursor_position, offset, size)
    /\ mode' = "Running"
    /\ call' = [call EXCEPT !.op = IF prompt = SEARCH THEN "search_aborted"
                                   ELSE "save_aborted"]
    /\ UNCHANGED <<doc_vars, should_quit, dirty, size, prompt, prev_cursor_position,
                   disk, saved_rows>>

\* "Save as: " answered with a name: the document gets the name and is saved.
PromptSaveAsEnter(outcome) ==
    /\ mode = "prompt_string"
    /\ ReadKey
    /\ prompt = SAVE_AS
    /\ ret # <<>>
    /\ LET r == Document_save(rows, Some(ret), doc_dirty, disk, outcome)
       IN /\ filename' = Some(ret)
          /\ doc_dirty' = r.dirty
          /\ dirty' = (IF r.ok THEN FALSE ELSE dirty)
          /\ disk' = r.file
          /\ saved_rows' = (IF r.ok THEN rows ELSE saved_rows)
          /\ call' = Call("save", prev_cursor_position, outcome.kind, rows, r.ok)
    /\ cursor_position' = prev_cursor_position
    /\ offset' = scroll(prev_cursor_position, offset, size)
    /\ mode' = "Running"
    /\ UNCHANGED <<rows, should_quit, size, prompt_vars>>

\* "Search: " answered with a query: the cursor goes to the first match, or
\* stays where prompt_string restored it.
PromptSearchEnter ==
    /\ mode = "prompt_string"
    /\ ReadKey
    /\ prompt = SEARCH
    /\ ret # <<>>
    /\ LET found == Document_find(rows, ret)
           cur == IF found.some THEN found.v ELSE prev_cursor_position
       IN /\ cursor_position' = cur
          /\ offset' = scroll(cur, offset, size)
          /\ call' = [call EXCEPT !.op = IF found.some THEN "search_found"
                                         ELSE "search_not_found"]
    /\ mode' = "Running"
    /\ UNCHANGED <<doc_vars, should_quit, dirty, size, prompt_vars, disk, saved_rows>>

\* Characters typed into a prompt.
PromptChars == TypedChars \ {LF}

Next ==
    \/ \E c \in TypedChars : KeyChar(c)
    \/ KeyBackspace
    \/ KeyDelete
    \/ \E key \in MoveKeys : KeyMove(key)
    \/ KeyOther
    \/ KeyCtrlQ
    \/ PromptBoolYes
    \/ PromptBoolNo
    \/ PromptBoolOther
    \/ \E outcome \in SaveOutcomes(rows) : KeySaveNamed(outcome)
    \/ KeySaveUnnamed
    \/ KeyCtrlS
    \/ \E c \in PromptChars : PromptStringChar(c)
    \/ PromptStringBackspace
    \/ PromptStringOther
    \/ \E enter \in BOOLEAN : PromptStringNone(enter)
    \/ \E outcome \in SaveOutcomes(rows) : PromptSaveAsEnter(outcome)
    \/ PromptSearchEnter

Spec == Init /\ [][Next]_vars

(***************************************************************************)
(* The Document interface on its own: its public operations called one     *)
(* after the other, with any Position near the document, on a document     *)
(* that was opened from a file or created empty.                           *)
(***************************************************************************)
\* Characters given to Document::insert.
InsertChars == {"a", TAB}

\* The positions given to the operations: every row and two past the last, every
\* column of the row and one past its len().
Positions(rs) ==
    UNION {{Position(x, y) : x \in 0..(Row_len(Document_row_or_default(rs, y)) + 1)} :
           y \in 0..(Len(rs) + 1)}

editor_vars == <<should_quit, cursor_position, offset, dirty, size, prompt_vars>>

\* The state after an edit of the document returned r; a panic ends the run.
DocumentEdited(op, at, c, r) ==
    /\ call' = Call(op, at, c, rows, r.ok)
    /\ IF r.ok
       THEN rows' = r.rows /\ doc_dirty' = TRUE /\ mode' = mode
       ELSE mode' = "Panicked" /\ UNCHANGED <<rows, doc_dirty>>
    /\ UNCHANGED <<filename, editor_vars, disk, saved_rows>>

\* document.insert(&at, c)
DocInsert(at, c) ==
    /\ mode = "Running"
    /\ CallDocument
    /\ DocumentEdited("insert", at, c, Document_insert(rows, at, c))

\* document.insert_newline(&at)
DocInsertNewline(at) ==
    /\ mode = "Running"
    /\ CallDocument
    /\ DocumentEdited("insert_newline", at, LF, Document_insert_newline(rows, at))

\* document.del_char_backward(&at)
DocDelCharBackward(at) ==
    /\ mode = "Running"
    /\ CallDocument
    /\ DocumentEdited("del_char_backward", at, "", Document_del_char_backward(rows, at))

\* document.del_char_forward(&at)
DocDelCharForward(at) ==
    /\ mode = "Running"
    /\ CallDocument
    /\ DocumentEdited("del_char_forward", at, "", Document_del_char_forward(rows, at))

\* document.save()
DocSave(outcome) ==
    /\ mode = "Running"
    /\ CallDocument
    /\ LET r == Document_save(rows, filename, doc_dirty, disk, outcome)
       IN /\ doc_dirty' = r.dirty
          /\ disk' = r.file
          /\ saved_rows' = (IF r.ok THEN rows ELSE saved_rows)
          /\ call' = Call("save", Position_default, outcome.kind, rows, r.ok)
    /\ UNCHANGED <<rows, filename, editor_vars, mode>>

\* Document::open(filename) on the document's file: on success the document is
\* replaced by the one read, on an error (ok = FALSE in call) it is kept.
DocOpen ==
    /\ mode = "Running"
    /\ CallDocument
    /\ filename.some
    /\ LET r == Document_open(disk)
       IN /\ rows' = (IF r.ok THEN r.rows ELSE rows)
          /\ doc_dirty' = (IF r.ok THEN r.dirty ELSE doc_dirty)
          /\ saved_rows' = (IF r.ok THEN r.rows ELSE saved_rows)
          /\ call' = Call("open", Position_default, "", rows, r.ok)
    /\ UNCHANGED <<filename, editor_vars, mode, disk>>

\* Queries given to Document::find.
Queries == {<<"a">>, <<"b">>, <<"a", "b">>, <<TAB>>, <<COMBINING_ACUTE>>}

\* document.find(query): call.ok tells whether a Position came back, call.at is
\* that Position.
DocFind(query) ==
    /\ mode = "Running"
    /\ CallDocument
    /\ LET found == Document_find(rows, query)
       IN call' = Call("find", IF found.some THEN found.v ELSE Position_default,
                       query, rows, found.some)
    /\ UNCHANGED <<doc_vars, editor_vars, mode, disk, saved_rows>>

DocInit == \E with_arg \in BOOLEAN, file \in Files :
               /\ (~with_arg => file = NoFile)
               /\ InitWith(with_arg, file, [width |-> 3, height |-> 4])

DocNext ==
    \/ \E at \in Positions(rows), c \in InsertChars : DocInsert(at, c)
    \/ \E at \in Positions(rows) : DocInsertNewline(at)
    \/ \E at \in Positions(rows) : DocDelCharBackward(at)
    \/ \E at \in Positions(rows) : DocDelCharForward(at)
    \/ \E outcome \in SaveOutcomes(rows) : DocSave(outcome)
    \/ DocOpen
    \/ \E query \in Queries : DocFind(query)

DocSpec == DocInit /\ [][DocNext]_vars

(***************************************************************************)
(* Notions the properties are stated in.                                   *)
(***************************************************************************)
\* The raw text of every row, in order.
RawText(rs) == [i \in 1..Len(rs) |-> rs[i].string]

\* The operations that edit the rows.
EditOps == {"insert", "insert_newline", "del_char_backward", "del_char_forward"}

RECURSIVE DisplayWidth(_)
\* The display width of a text: every grapheme one column, a tab TAB_WIDTH.
DisplayWidth(s) ==
    IF s = <<>> THEN 0
    ELSE LET n == Len(s)
             last == IF s[n] = TAB THEN TAB_WIDTH
                     ELSE IF IsGraphemeStart(s, n) THEN 1 ELSE 0
         IN DisplayWidth(SubSeq(s, 1, n - 1)) + last

\* The numbers k of leading characters of s that end at display column x on a
\* grapheme boundary: empty when column x lies inside a tab or past the end.
ColumnIndex(s, x) ==
    {k \in 0..Len(s) : /\ k = Len(s) \/ IsGraphemeStart(s, k + 1)
                       /\ DisplayWidth(SubSeq(s, 1, k)) = x}

\* s with the text ins put in after its first k characters.
InsertedAt(s, k, ins) == SubSeq(s, 1, k) \o ins \o SubSeq(s, k + 1, Len(s))

\* s without its character k.
RemovedAt(s, k) == SubSeq(s, 1, k - 1) \o SubSeq(s, k + 1, Len(s))

\* rs and qs are the same rows but for row index y (counted from 0).
SameRowsBut(rs, qs, y) ==
    /\ Len(rs) = Len(qs)
    /\ \A i \in 1..Len(rs) : i # y + 1 => rs[i] = qs[i]

(***************************************************************************)
(* Properties.                                                             *)
(***************************************************************************)
\* C1: whatever keys are typed, on whatever document and terminal, no edit
\* operation panics: the session never ends in a panic.
C1_NoEditPanics == mode # "Panicked"

\* C2: the quit guard.  A quit request with unsaved changes (Editor.dirty) opens
\* the confirm prompt and without them ends the session; in the prompt 'y' ends
\* the session, 'n', Esc and Ctrl-g give back a running session with should_quit
\* cleared and the rows and the cursor of the moment of the request, and any
\* other key keeps the prompt open.
C2_QuitGuard ==
    /\ call.op = "quit" => /\ dirty => mode = "prompt_bool"
                           /\ ~dirty => mode = "Terminated"
                           /\ rows = call.before
    /\ call.op = "quit_yes" => mode = "Terminated"
    /\ call.op = "quit_no" => /\ mode = "Running"
                              /\ ~should_quit
                              /\ rows = call.before
                              /\ cursor_position = call.at
    /\ call.op = "quit_other" => mode = "prompt_bool" /\ should_quit /\ rows = call.before
    /\ mode = "Terminated" => /\ call.op \in {"quit", "quit_yes"}
                              /\ call.op = "quit_yes" <=> dirty
    /\ mode = "prompt_bool" => dirty /\ call.op \in {"quit", "quit_other"}

\* C2: a session that was asked to quit with unsaved changes and declined.
C2_Witness ==
    /\ call.op = "quit_no"
    /\ mode = "Running"
    /\ dirty
    /\ rows # saved_rows
    /\ cursor_position # Position_default

\* C3 as stated: the document is dirty exactly when its rows differ from the
\* rows at the last successful save or load.
C3_DirtyIffRowsDiffer == doc_dirty <=> rows # saved_rows

\* C3 as amended: the document is dirty whenever its rows differ from the rows at
\* the last successful save or load, and it is dirty after every edit operation,
\* also after one that left the rows as they were.
C3_DirtyWhenRowsDiffer ==
    /\ rows # saved_rows => doc_dirty
    /\ call.op \in EditOps /\ call.ok => doc_dirty
    /\ call.op \in {"save", "open"} /\ call.ok => ~doc_dirty /\ rows = saved_rows

\* C3: an edit has changed the rows of a document that had been saved.
C3_Witness ==
    /\ call.op \in EditOps
    /\ call.ok
    /\ rows # saved_rows
    /\ disk \notin Files
    /\ doc_dirty

\* C4: a save that fails with an I/O error leaves Document.dirty, Editor.dirty
\* and the rows as they were, and the session is running afterwards.
C4_FailedSaveKeepsDirty ==
    [][call'.op = "save" /\ ~call'.ok =>
          /\ doc_dirty' = doc_dirty
          /\ dirty' = dirty
          /\ rows' = rows
          /\ mode' = "Running"]_vars

\* C4: a save of a changed document has failed.
C4_Witness ==
    /\ call.op = "save"
    /\ ~call.ok
    /\ dirty
    /\ doc_dirty
    /\ mode = "Running"

\* No row contains a line feed.
NoLineFeed(rs) == \A i \in 1..Len(rs) : \A j \in 1..Len(rs[i].string) : rs[i].string[j] # LF

\* No row ends with a carriage return.
NoTrailingCR(rs) ==
    \A i \in 1..Len(rs) : rs[i].string = <<>> \/ rs[i].string[Len(rs[i].string)] # CR

\* C5 as stated: a document without line feeds in its rows that has just been
\* saved and is opened again has the same rows, with the same raw text, and is
\* not dirty.
C5_RoundTrip ==
    [][(call.op = "save" /\ call.ok /\ filename.some /\ NoLineFeed(rows)
            /\ call'.op = "open" /\ mode = "Running") =>
          call'.ok /\ RawText(rows') = RawText(rows) /\ ~doc_dirty']_vars

\* C5 as amended: the same, for documents whose rows neither contain a line feed
\* nor end with a carriage return.
C5_RoundTripNoTrailingCR ==
    [][(call.op = "save" /\ call.ok /\ filename.some /\ NoLineFeed(rows)
            /\ NoTrailingCR(rows) /\ call'.op = "open" /\ mode = "Running") =>
          call'.ok /\ rows' = rows /\ ~doc_dirty']_vars

\* C5: a document of two rows was saved over a file with other bytes and opened
\* again.
C5_Witness ==
    /\ call.op = "open"
    /\ call.ok
    /\ disk \notin Files
    /\ Len(rows) = 2
    /\ ~doc_dirty

\* The text of the row the last call was about, before the call (empty when
\* the row did not exist) and after it.
OldText == IF call.at.y < Len(call.before) THEN call.before[call.at.y + 1].string ELSE <<>>
OldLen == IF call.at.y < Len(call.before) THEN call.before[call.at.y + 1].len ELSE 0
NewText == rows[call.at.y + 1].string

\* The text a character is stored as: a tab as TAB_WIDTH spaces (C7).
Stored(c) == IF c = TAB THEN Spaces(TAB_WIDTH) ELSE <<c>>

\* C6: Document.insert(position, c).  At position.y == rows.len() a new last row
\* holding exactly c is appended; at position.y < rows.len() the row count and
\* the other rows stay and c is put into row position.y at column position.x,
\* the old characters kept in their order.  The document is dirty afterwards.
\* (c is counted as put in when the text it is stored as is.)
C6_Insert ==
    call.op = "insert" =>
        /\ call.at.y = Len(call.before) =>
              /\ call.ok
              /\ doc_dirty
              /\ Len(rows) = Len(call.before) + 1
              /\ SubSeq(rows, 1, Len(call.before)) = call.before
              /\ NewText = Stored(call.c)
        /\ (call.at.y < Len(call.before) /\ ColumnIndex(OldText, call.at.x) # {}) =>
              /\ call.ok
              /\ doc_dirty
              /\ SameRowsBut(rows, call.before, call.at.y)
              /\ \E k \in ColumnIndex(OldText, call.at.x) :
                    NewText = InsertedAt(OldText, k, Stored(call.c))

IsPlain(s) == \A i \in 1..Len(s) : s[i] \in {"a", "b", SPACE, TAB}

C8_InsertNewline ==
    call.op = "insert_newline" =>
        /\ call.ok
        /\ doc_dirty
        /\ call.at.y < Len(call.before) =>
              /\ Len(rows) = Len(call.before) + 1
              /\ NewText \o rows[call.at.y + 2].string = OldText
              /\ \A k \in ColumnIndex(OldText, call.at.x) : NewText = SubSeq(OldText, 1, k)
              /\ \A i \in 1..Len(call.before) :
                    /\ i < call.at.y + 1 => rows[i] = call.before[i]
                    /\ i > call.at.y + 1 => rows[i + 1] = call.before[i]
        /\ call.at.y >= Len(call.before) =>
              RawText(rows) = RawText(call.before) \o <<<<>>, <<>>>>

\* C9: Document.delete_backward(position).  With position.x # 0 the character
\* before column position.x leaves row position.y; with position.x = 0 and
\* position.y > 0 the row is joined onto the previous row; at {0, 0} nothing
\* changes.
C9_DeleteBackward ==
    call.op = "del_char_backward" =>
        /\ (call.at.x # 0 /\ call.at.y < Len(call.before)
                /\ ColumnIndex(OldText, call.at.x) # {}) =>
              /\ call.ok
              /\ SameRowsBut(rows, call.before, call.at.y)
              /\ \E k \in ColumnIndex(OldText, call.at.x) : NewText = RemovedAt(OldText, k)
        /\ (call.at.x = 0 /\ call.at.y > 0 /\ call.at.y < Len(call.before)) =>
              /\ call.ok
              /\ RawText(rows) =
                    RawText(SubSeq(call.before, 1, call.at.y - 1))
                    \o <<call.before[call.at.y].string \o OldText>>
                    \o RawText(SubSeq(call.before, call.at.y + 2, Len(call.before)))
        /\ (call.at.x = 0 /\ call.at.y = 0) => call.ok /\ rows = call.before

\* C10: Document.delete_forward(position).  Before the end of the row the
\* character at column position.x leaves the row; at the end of a row that has a
\* next row the next row is joined onto it; at the end of the last row and at
\* any position past the last row nothing changes.
C10_DeleteForward ==
    call.op = "del_char_forward" =>
        /\ (call.at.y < Len(call.before) /\ call.at.x < OldLen
                /\ ColumnIndex(OldText, call.at.x) # {}) =>
              /\ call.ok
              /\ SameRowsBut(rows, call.before, call.at.y)
              /\ \E k \in ColumnIndex(OldText, call.at.x) : NewText = RemovedAt(OldText, k + 1)
        /\ (call.at.y + 1 < Len(call.before) /\ call.at.x = OldLen) =>
              /\ call.ok
              /\ RawText(rows) =
                    RawText(SubSeq(call.before, 1, call.at.y))
                    \o <<OldText \o call.before[call.at.y + 2].string>>
                    \o RawText(SubSeq(call.before, call.at.y + 3, Len(call.before)))
        /\ (call.at.y + 1 = Len(call.before) /\ call.at.x = OldLen) =>
              call.ok /\ rows = call.before
        /\ call.at.y >= Len(call.before) => call.ok /\ rows = call.before

\* A position on a column boundary of a row of rs: the row exists and column
\* at.x is the end of one of its graphemes, or its start.
InRow(rs, at) == at.y < Len(rs) /\ ColumnIndex(rs[at.y + 1].string, at.x) # {}

\* C11: insert then delete-backward is the identity on the row.  For a position
\* p within a row and a character c, insert(p, c) succeeds, and
\* delete_backward at column p + 1 of the same row after it leaves the row with
\* its original text and the document with its original number of rows.
C11_InsertThenDeleteBackward ==
    [][/\ (call'.op = "insert" /\ InRow(rows, call'.at)) => call'.ok
       /\ (/\ call.op = "insert" /\ call.ok /\ InRow(call.before, call.at)
           /\ call'.op = "del_char_backward"
           /\ call'.at = Position(call.at.x + 1, call.at.y)) =>
              /\ call'.ok
              /\ Len(rows') = Len(call.before)
              /\ rows'[call.at.y + 1].string = OldText]_vars

\* C12: split and merge are inverses.  For a row y of the document and a column
\* x within it, insert_newline at {x, y} succeeds, and delete_backward at
\* {0, y + 1} after it gives back the original rows: the same number of rows,
\* the same raw text in every row.
C12_SplitThenMerge ==
    [][/\ (call'.op = "insert_newline" /\ InRow(rows, call'.at)) => call'.ok
       /\ (/\ call.op = "insert_newline" /\ call.ok /\ InRow(call.before, call.at)
           /\ call'.op = "del_char_backward"
           /\ call'.at = Position(0, call.at.y + 1)) =>
              /\ call'.ok
              /\ RawText(rows') = RawText(call.before)]_vars

\* The text s has an occurrence of the text q.
Contains(s, q) == \E k \in 0..(Len(s) - Len(q)) : SubSeq(s, k + 1, k + Len(q)) = q

\* The number of characters of s before its first occurrence of q.
FirstOccurrence(s, q) ==
    CHOOSE k \in 0..(Len(s) - Len(q)) :
        /\ SubSeq(s, k + 1, k + Len(q)) = q
        /\ \A j \in 0..(k - 1) : SubSeq(s, j + 1, j + Len(q)) # q

\* C13: Document.find(query) returns the topmost, leftmost match.  The result
\* is none exactly when no row contains query; otherwise y is the smallest index
\* of a row that contains query and x is the number of graphemes before the
\* first occurrence of query in that row.  The document is not modified.
C13_FindTopmostLeftmost ==
    call.op = "find" =>
        LET ys == {y \in 0..(Len(rows) - 1) : Contains(rows[y + 1].string, call.c)}
        IN /\ rows = call.before
           /\ ~call.ok <=> ys = {}
           /\ call.ok =>
                 /\ call.at.y \in ys
                 /\ \A y \in ys : call.at.y <= y
                 /\ call.at.x =
                       GraphemeCount(SubSeq(rows[call.at.y + 1].string, 1,
                           FirstOccurrence(rows[call.at.y + 1].string, call.c)))

\* C14: vertical moves.  After Up or Down the cursor's y lies in
\* 0..document.len() and its x is at most the len() of the row at the new y (0
\* past the last row); Up never increases y and Down never decreases it.
C14_VerticalMoves ==
    call.op \in {"Up", "Down"} =>
        /\ cursor_position.y \in 0..Document_len(rows)
        /\ cursor_position.x <= Row_len(Document_row_or_default(rows, cursor_position.y))
        /\ call.op = "Up" => cursor_position.y <= call.at.y
        /\ call.op = "Down" => cursor_position.y >= call.at.y

\* C15: line-start and line-end moves.  Home sets the cursor's x to 0, End sets
\* it to the width of the current row, and both leave the cursor's y as it was.
C15_HomeEnd ==
    /\ call.op = "Home" =>
          /\ cursor_position.x = 0
          /\ cursor_position.y = call.at.y
    /\ call.op = "End" =>
          /\ cursor_position.x = Row_len(Document_row_or_default(rows, call.at.y))
          /\ cursor_position.y = call.at.y

\* C16: page moves.  After PageUp or PageDown the cursor's y lies in
\* 0..document.len(); PageUp never increases y and PageDown never decreases it,
\* whatever the height of the terminal.
C16_PageMoves ==
    call.op \in {"PageUp", "PageDown"} =>
        /\ cursor_position.y \in 0..Document_len(rows)
        /\ call.op = "PageUp" => cursor_position.y <= call.at.y
        /\ call.op = "PageDown" => cursor_position.y >= call.at.y

\* Editor::draw_rows draws the document rows off.y .. off.y + height - 3 of a
\* terminal of that height (two lines are the bars): the number of lines shown.
VisibleLines(sz) == saturating_sub(sz.height, 2)

\* Editor::draw_row renders the columns off.x .. off.x + width - 1.
VisibleColumns(sz) == sz.width

\* One coordinate of a scroll step: v is the cursor, o the offset before, o2 the
\* offset after, n the number of lines (columns) shown; o + n - 1 is the last
\* one shown.
ScrollStep(v, o, o2, n) ==
    /\ v > o + n - 1 => o2 = o + (v - (o + n - 1))
    /\ v < o => o2 = v
    /\ (o <= v /\ v <= o + n - 1) => o2 = o

\* The keys after which process_keypress runs scroll() once on the cursor the
\* key left.
ScrolledOps == MoveKeys \cup EditOps \cup {"other"}

\* C17: the scroll step.  With the cursor k >= 1 lines below the last visible
\* line scroll adds exactly k to offset.y; with the cursor above the first
\* visible line offset.y becomes cursor.y; with the cursor inside the window
\* offset.y stays.  The same for x and the visible width.
C17_ScrollStep ==
    [][(mode = "Running" /\ mode' = "Running" /\ call'.op \in ScrolledOps /\ call'.ok) =>
          /\ ScrollStep(cursor_position'.y, offset.y, offset'.y, VisibleLines(size))
          /\ ScrollStep(cursor_position'.x, offset.x, offset'.x, VisibleColumns(size))]_vars

\* C17: on a terminal that shows two lines Down has taken the cursor one line
\* below the window and the window has followed it by one line.
C17_Witness ==
    /\ call.op = "Down"
    /\ mode = "Running"
    /\ VisibleLines(size) = 2
    /\ cursor_position.y = 2
    /\ offset.y = 1

\* The buffer without its last character; the empty buffer stays empty.
Popped(buffer) == IF buffer = <<>> THEN <<>> ELSE SubSeq(buffer, 1, Len(buffer) - 1)

\* What is seen of the callback having run with the buffer: the search prompt's
\* callback puts the cursor on the first match of the buffer when there is one.
CallbackRanWith(buffer, cursor) ==
    (prompt = SEARCH /\ Document_find(rows, buffer).some) =>
        cursor = Document_find(rows, buffer).v

\* C18: prompt input.  A character is appended to the buffer, Backspace removes
\* its last character (nothing when it is empty), any other key leaves it, and
\* after each of these keys the prompt is still open and the callback has run
\* with the buffer; a prompt that returns a value returns the buffer, which is
\* not empty ("Save as: " makes it the file name, "Search: " searches for it);
\* a prompt that returns no value leaves the document without a name.
C18_PromptInput ==
    [][mode = "prompt_string" =>
          /\ call'.op = "prompt_char" =>
                /\ ret' = Append(ret, call'.c)
                /\ mode' = "prompt_string"
                /\ CallbackRanWith(ret', cursor_position')
          /\ call'.op = "prompt_backspace" =>
                /\ ret' = Popped(ret)
                /\ mode' = "prompt_string"
                /\ CallbackRanWith(ret', cursor_position')
          /\ call'.op = "prompt_other" =>
                /\ ret' = ret
                /\ mode' = "prompt_string"
                /\ CallbackRanWith(ret', cursor_position')
          /\ call'.op = "save" => ret # <<>> /\ filename' = Some(ret)
          /\ call'.op = "search_found" =>
                ret # <<>> /\ cursor_position' = Document_find(rows, ret).v
          /\ call'.op = "search_not_found" =>
                ret # <<>> /\ ~Document_find(rows, ret).some
          /\ call'.op = "save_aborted" => filename' = None
          /\ mode' = "Running" =>
                call'.op \in {"save", "search_found", "search_not_found",
                              "save_aborted", "search_aborted"}]_vars

\* C18: "Save as: " was answered with a character and Enter, and the document
\* has the buffer as its name.
C18_Witness ==
    /\ call.op = "save"
    /\ mode = "Running"
    /\ ret # <<>>
    /\ ret # FILE_ARG
    /\ filename = Some(ret)

\* C19: an aborted search restores the state.  When the search prompt returns
\* no value (Escape, Ctrl-g, or Enter on an empty buffer), the cursor and the
\* offset are what they were when the prompt was entered, and the rows are
\* unchanged.
C19_AbortedSearchRestores ==
    call.op = "search_aborted" =>
        /\ cursor_position = call.at
        /\ offset = call.offset
        /\ rows = call.before

\* The number of tab characters of a text.
TabCount(s) == Cardinality({i \in 1..Len(s) : s[i] = TAB})

\* C20: the row length invariant.  Every row of the document, as constructed
\* and after every mutation, has len() = grapheme_count(raw text) +
\* tab_count(raw text) * (tab_width - 1); without tabs that is the grapheme
\* count.
C20_RowLen ==
    \A i \in 1..Len(rows) :
        /\ Row_len(rows[i]) =
              GraphemeCount(rows[i].string) + TabCount(rows[i].string) * (TAB_WIDTH - 1)
        /\ TabCount(rows[i].string) = 0 => Row_len(rows[i]) = GraphemeCount(rows[i].string)

\* C20: Row::delete has taken a character out of a row that holds a tab, and
\* the row's len() is not its number of characters.
C20_Witness ==
    /\ call.op = "del_char_forward"
    /\ call.ok
    /\ rows # call.before
    /\ \E i \in 1..Len(rows) :
          /\ TabCount(rows[i].string) = 1
          /\ Row_len(rows[i]) # Len(rows[i].string)
          /\ Len(rows[i].string) < Len(call.before[i].string)

\* C21: Row.delete(index) with index out of bounds is a silent no-op.
\* Document::del_char_forward calls row.delete(at.x) when at.x is not the
\* row's len(), Document::del_char_backward calls row.delete(at.x - 1) when
\* at.x is not 0 (on an empty row when the document has no row at.y); with an
\* index that is not below the number of characters of the row the call
\* returns and leaves the row's text and len(), and so the rows, as they were.
C21_RowDeleteOutOfBounds ==
    /\ (call.op = "del_char_forward" /\ call.at.x # OldLen
            /\ call.at.x >= Len(OldText)) =>
          call.ok /\ rows = call.before
    /\ (call.op = "del_char_backward" /\ call.at.x # 0
            /\ call.at.x - 1 >= Len(OldText)) =>
          call.ok /\ rows = call.before

\* C22: the cursor is clamped before a mutation.  Whenever an edit key
\* (character, Enter, Backspace, Delete) is dispatched, the cursor it is
\* dispatched with has y <= document.len() and x <= len() of the row at y (x = 0
\* when y is past the last row).
C22_CursorClampedBeforeEdit ==
    call.op \in EditOps =>
        /\ call.at.y <= Document_len(call.before)
        /\ call.at.x <= Row_len(Document_row_or_default(call.before, call.at.y))

\* The cursor is inside the window that is drawn.
CursorVisible ==
    /\ offset.y <= cursor_position.y
    /\ cursor_position.y < offset.y + VisibleLines(size)
    /\ offset.x <= cursor_position.x
    /\ cursor_position.x < offset.x + VisibleColumns(size)

\* The offsets one or two runs of scroll() for the cursor c lead to.
Scrolled(c) == {scroll(c, offset, size), scroll(c, scroll(c, offset, size), size)}

\* C23: the cursor stays visible.  On a terminal of width >= 1 and height >= 3,
\* after every processed key (the key loop is waiting for the next key, or has
\* ended with the quit) offset.y <= cursor.y < offset.y + height - 2 and
\* offset.x <= cursor.x < offset.x + width; and the offset changes only as
\* scroll() changes it, for the cursor the step leaves or started with.
C23_CursorStaysVisible ==
    /\ []((mode \in {"Running", "Terminated"} /\ size.width >= 1 /\ size.height >= 3) =>
             CursorVisible)
    /\ [][offset' # offset =>
             offset' \in Scrolled(cursor_position') \cup Scrolled(cursor_position)]_vars

\* C23: a typed tab has taken the cursor past the right edge of a terminal of
\* four lines and the window has followed it.
C23_Witness ==
    /\ call.op = "insert"
    /\ call.c = TAB
    /\ mode = "Running"
    /\ size.height >= 3
    /\ offset.x > 0
    /\ CursorVisible

\* C24: Editor.dirty equals Document.is_dirty() in every state of a session
\* that has not panicked, failed saves and aborted "Save as: " prompts
\* included; so a quit request opens the confirm prompt exactly when the
\* document is dirty.
C24_EditorDirtyIsDocumentDirty ==
    mode # "Panicked" =>
        /\ dirty = doc_dirty
        /\ call.op = "quit" => (mode = "prompt_bool" <=> doc_dirty)
        /\ call.op = "quit" => (mode = "Terminated" <=> ~doc_dirty)

\* C24: a "Save as: " prompt was aborted on a changed document, or a save of a
\* changed document failed, and both flags are set.
C24_Witness ==
    /\ call.op \in {"save_aborted", "save"}
    /\ call.op = "save" => ~call.ok
    /\ mode = "Running"
    /\ rows # saved_rows
    /\ dirty
    /\ doc_dirty

====
